---- MODULE Spec2Model ----
(***************************************************************************)
(* A model of src/app.py: the record-linkage pipeline (merge, date         *)
(* parsing, age derivation, plausibility filter, deduplication), the       *)
(* pathology filter, the per-patient aggregation, the age buckets, the     *)
(* relation classifier and the family-history parser.                      *)
(*                                                                         *)
(* Text is a sequence of one-character strings, so that lower-casing and   *)
(* substring search are computed and not assumed.  A nullable cell is      *)
(* NULL (the empty tuple) or Some(v) (a one-element tuple).                *)
(***************************************************************************)
EXTENDS Integers, Sequences, FiniteSets, TLC

VARIABLES
    pc,                  \* position of the script
    structured_notes,    \* the notes table as loaded (line 25)
    patients,            \* the patients table as loaded (line 25)
    merged_df,           \* lines 30-43
    search_word,         \* lines 56-63
    filtered_df,         \* line 66
    aggregated_df,       \* lines 69-72
    age_group,           \* filtered_df['AGE_GROUP'], line 149
    family_histories,    \* aggregated_df['MEDICAL_FAMILY_HISTORY'].dropna(), line 103
    row,                 \* position of the loop of line 103
    all_relations,       \* line 102
    selected_relations,  \* line 110
    filtered_family,     \* display_df["FILTERED_FAMILY_HISTORY"], line 121
    relation,            \* argument of standardize_relation
    category             \* result of standardize_relation

vars == <<pc, structured_notes, patients, merged_df, search_word, filtered_df,
          aggregated_df, age_group, family_histories, row, all_relations,
          selected_relations, filtered_family, relation, category>>

linkVars == <<structured_notes, patients, merged_df, search_word, filtered_df,
              aggregated_df, age_group>>
familyVars == <<family_histories, row, all_relations, selected_relations,
                filtered_family>>
classifyVars == <<relation, category>>

----------------------------------------------------------------------------
(* Nullable cells and text                                                 *)

NULL == <<>>
Some(v) == <<v>>
Get(c) == c[1]
notnull(c) == c # NULL

UpperCase == <<"A", "B", "C", "D", "E", "F", "G", "H", "I", "J", "K", "L", "M",
               "N", "O", "P", "Q", "R", "S", "T", "U", "V", "W", "X", "Y", "Z">>
LowerCase == <<"a", "b", "c", "d", "e", "f", "g", "h", "i", "j", "k", "l", "m",
               "n", "o", "p", "q", "r", "s", "t", "u", "v", "w", "x", "y", "z">>

\* str.lower() on one character
LowerChar(c) ==
    IF \E i \in DOMAIN UpperCase : UpperCase[i] = c
    THEN LowerCase[CHOOSE i \in DOMAIN UpperCase : UpperCase[i] = c]
    ELSE c

\* str.lower()
lower(s) == [i \in DOMAIN s |-> LowerChar(s[i])]

\* Python's  sub in s  on strings
Contains(sub, s) ==
    \E i \in 0..(Len(s) - Len(sub)) : SubSeq(s, i + 1, i + Len(sub)) = sub

----------------------------------------------------------------------------
(* Relation Classifier, lines 79-98                                        *)

ChildrenKeywords ==
    << <<"d", "a", "u", "g", "h", "t", "e", "r">>,
       <<"s", "o", "n">>,
       <<"c", "h", "i", "l", "d", "r", "e", "n">> >>

SiblingKeywords ==
    << <<"b", "r", "o", "t", "h", "e", "r">>,
       <<"s", "i", "s", "t", "e", "r">>,
       <<"s", "i", "b", "l", "i", "n", "g">> >>

ParentKeywords ==
    << <<"f", "a", "t", "h", "e", "r">>,
       <<"m", "o", "t", "h", "e", "r">>,
       <<"p", "a", "r", "e", "n", "t">> >>

\* the list of line 96, as written: the regular expression is a plain string
\* there, and "Unknown" and "Unremarkable" keep their capital letter
ExcludedKeywords ==
    << <<"n", "o", "n", " ", "c", "o", "n", "t", "r", "i", "b", "u", "t", "o", "r", "y">>,
       <<"n", "c">>,
       <<"n", "o", "n", "c", "o", "n", "t", "r", "i", "b", "u", "t", "o", "r", "y">>,
       <<"n", "o", "\\", "b", ".", "*", "?", "\\", "b", "h", "i", "s", "t", "o", "r", "y">>,
       <<"n", "o", "t">>,
       <<"U", "n", "k", "n", "o", "w", "n">>,
       <<"U", "n", "r", "e", "m", "a", "r", "k", "a", "b", "l", "e">> >>

\* any(sub in relation for sub in keywords)
AnyIn(keywords, s) == \E k \in DOMAIN keywords : Contains(keywords[k], s)

None == "None"
Categories == {"Children", "Sibling", "Parent", "Other relatives"}

standardize_relation(rel) ==
    LET r == lower(rel) IN
    IF AnyIn(ChildrenKeywords, r) THEN "Children"
    ELSE IF AnyIn(SiblingKeywords, r) THEN "Sibling"
    ELSE IF AnyIn(ParentKeywords, r) THEN "Parent"
    ELSE IF AnyIn(ExcludedKeywords, r) THEN None
    ELSE "Other relatives"

----------------------------------------------------------------------------
(* Tables                                                                  *)

\* the subsequence of s at the positions in I, in order
RECURSIVE Pick(_, _, _)
Pick(s, I, i) ==
    IF i > Len(s) THEN <<>>
    ELSE (IF i \in I THEN <<s[i]>> ELSE <<>>) \o Pick(s, I, i + 1)

RECURSIVE Flatten(_)
Flatten(ss) == IF ss = <<>> THEN <<>> ELSE Head(ss) \o Flatten(Tail(ss))

SeqsBetween(S, lo, hi) == UNION {[1..k -> S] : k \in lo..hi}

\* code points of the characters the tables hold, in increasing order
Ascii == <<" ", ",">> \o UpperCase \o LowerCase
Ord(c) == CHOOSE i \in DOMAIN Ascii : Ascii[i] = c

\* Python's  a < b  on strings
RECURSIVE TextLess(_, _)
TextLess(a, b) ==
    IF b = <<>> THEN FALSE
    ELSE IF a = <<>> THEN TRUE
    ELSE IF Head(a) # Head(b) THEN Ord(Head(a)) < Ord(Head(b))
    ELSE TextLess(Tail(a), Tail(b))

\* sep.join(texts)
RECURSIVE join(_, _)
join(sep, texts) ==
    IF texts = <<>> THEN <<>>
    ELSE IF Len(texts) = 1 THEN texts[1]
    ELSE texts[1] \o sep \o join(sep, Tail(texts))

----------------------------------------------------------------------------
(* Linker, lines 30-43                                                     *)

MinAge == 0
MaxAge == 100

\* line 30: structured_notes.merge(patients[[...]], on='SUBJECT_ID', how='left').
\* Every notes row is kept, in order, once per patients row with its
\* identifier, or once with null demographic fields when there is none.
\* note is the position of the notes row the merged row comes from.
merge_row(notes, pats, i) ==
    LET n == notes[i]
        base == [note |-> i,
                 SUBJECT_ID |-> n.SUBJECT_ID,
                 MAIN_PATHOLOGY |-> n.MAIN_PATHOLOGY,
                 MEDICAL_PERSONAL_HISTORY |-> n.MEDICAL_PERSONAL_HISTORY,
                 MEDICAL_FAMILY_HISTORY |-> n.MEDICAL_FAMILY_HISTORY,
                 GENDER |-> NULL, DOB |-> NULL, DOD_HOSP |-> NULL, AGE |-> NULL]
        hits == SelectSeq(pats, LAMBDA p : p.SUBJECT_ID = n.SUBJECT_ID)
    IN  IF hits = <<>> THEN <<base>>
        ELSE [k \in DOMAIN hits |->
                [base EXCEPT !.GENDER = hits[k].GENDER,
                             !.DOB = hits[k].DOB,
                             !.DOD_HOSP = hits[k].DOD_HOSP]]

merge(notes, pats) == Flatten([i \in DOMAIN notes |-> merge_row(notes, pats, i)])

\* lines 33-34: pd.to_datetime(cell, errors='coerce'); only the year is read
to_datetime(cell) ==
    IF notnull(cell) /\ Get(cell).parseable THEN Some(Get(cell).year) ELSE NULL

parse_dates(df) ==
    [i \in DOMAIN df |->
        [df[i] EXCEPT !.DOB = to_datetime(df[i].DOB),
                      !.DOD_HOSP = to_datetime(df[i].DOD_HOSP)]]

\* line 37: the lambda; NaT.year is nan, and a number minus nan is nan.
\* None and nan are both null cells.
age_of(r) ==
    IF notnull(r.DOD_HOSP)
    THEN (IF notnull(r.DOB) THEN Some(Get(r.DOD_HOSP) - Get(r.DOB)) ELSE NULL)
    ELSE NULL

derive_age(df) == [i \in DOMAIN df |-> [df[i] EXCEPT !.AGE = age_of(df[i])]]

\* the filter of line 40 without its upper bound
plausible_no_upper(r) == notnull(r.AGE) /\ Get(r.AGE) >= MinAge

\* line 40: a comparison with a null is False
plausible(r) == notnull(r.AGE) /\ Get(r.AGE) >= MinAge /\ Get(r.AGE) <= MaxAge

age_filter(df) == SelectSeq(df, plausible)

\* the deduplication of line 43 with keep='last'
drop_duplicates_last(df) ==
    Pick(df, {i \in DOMAIN df :
                 \A j \in (i + 1)..Len(df) : df[j].SUBJECT_ID # df[i].SUBJECT_ID}, 1)

\* line 43: drop_duplicates(subset=['SUBJECT_ID']), keep='first'
drop_duplicates(df) ==
    Pick(df, {i \in DOMAIN df :
                 \A j \in 1..(i - 1) : df[j].SUBJECT_ID # df[i].SUBJECT_ID}, 1)

Linker(notes, pats) ==
    drop_duplicates(age_filter(derive_age(parse_dates(merge(notes, pats)))))

\* line 46: merged_df['MAIN_PATHOLOGY'].dropna().unique()
all_pathologies(df) ==
    {Get(df[i].MAIN_PATHOLOGY) : i \in {j \in DOMAIN df : notnull(df[j].MAIN_PATHOLOGY)}}

----------------------------------------------------------------------------
(* Filter Engine, line 66                                                  *)

\* Series.str.contains(search_word, case=False, na=False) for a search word
\* of letters, which as a regular expression matches itself
str_contains(cell, word) == notnull(cell) /\ Contains(lower(word), lower(Get(cell)))

filter_rows(df, word) ==
    IF word # <<>> THEN SelectSeq(df, LAMBDA r : str_contains(r.MAIN_PATHOLOGY, word))
    ELSE df

----------------------------------------------------------------------------
(* Aggregator, lines 69-72                                                 *)

GroupKey(r) == <<r.SUBJECT_ID, r.MAIN_PATHOLOGY, r.GENDER, r.AGE>>

\* groupby drops a row with a null in one of the keys (dropna=True)
HasKey(r) == notnull(r.SUBJECT_ID) /\ notnull(r.MAIN_PATHOLOGY)
             /\ notnull(r.GENDER) /\ notnull(r.AGE)

\* groupby sorts the groups by key (sort=True)
KeyLess(a, b) ==
    LET a1 == Get(a[1])  b1 == Get(b[1])
        a2 == Get(a[2])  b2 == Get(b[2])
        a3 == Get(a[3])  b3 == Get(b[3])
        a4 == Get(a[4])  b4 == Get(b[4])
    IN  IF a1 # b1 THEN a1 < b1
        ELSE IF a2 # b2 THEN TextLess(a2, b2)
        ELSE IF a3 # b3 THEN TextLess(a3, b3)
        ELSE a4 < b4

RECURSIVE SortKeys(_)
SortKeys(K) ==
    IF K = {} THEN <<>>
    ELSE LET m == CHOOSE k \in K : \A o \in K \ {k} : KeyLess(k, o)
         IN  <<m>> \o SortKeys(K \ {m})

\* lines 70-71: ', '.join(x.dropna().astype(str))
CommaSpace == <<",", " ">>
join_column(cells) ==
    LET kept == SelectSeq(cells, notnull)
    IN  join(CommaSpace, [i \in DOMAIN kept |-> Get(kept[i])])

aggregate(df) ==
    LET rows == SelectSeq(df, HasKey)
        keys == SortKeys({GroupKey(rows[i]) : i \in DOMAIN rows})
        members(k) == SelectSeq(rows, LAMBDA r : GroupKey(r) = k)
    IN  [g \in DOMAIN keys |->
            LET k == keys[g]  grp == members(k) IN
            [SUBJECT_ID |-> k[1], MAIN_PATHOLOGY |-> k[2], GENDER |-> k[3], AGE |-> k[4],
             MEDICAL_PERSONAL_HISTORY |->
                 join_column([i \in DOMAIN grp |-> grp[i].MEDICAL_PERSONAL_HISTORY]),
             MEDICAL_FAMILY_HISTORY |->
                 join_column([i \in DOMAIN grp |-> grp[i].MEDICAL_FAMILY_HISTORY])]]

----------------------------------------------------------------------------
(* Age buckets, lines 148-149                                              *)

BinStop == 110
BinWidth == 10
LabelStop == 100
LabelSpan == 9

\* bins=range(0, 110, 10)
BinEdges == {e \in 0..(BinStop - 1) : e % BinWidth = 0}
\* labels=[f"{i}-{i+9}" for i in range(0, 100, 10)], as the pair <<i, i+9>>
BinLabels == {<<i, i + LabelSpan>> : i \in {j \in 0..(LabelStop - 1) : j % BinWidth = 0}}

\* pd.cut(age, bins, right=False, labels): the k-th label for the k-th
\* interval [edge, next edge); null outside every interval
cut(age) ==
    IF notnull(age)
       /\ \E e \in BinEdges : e + BinWidth \in BinEdges
                              /\ e <= Get(age) /\ Get(age) < e + BinWidth
    THEN LET e == CHOOSE x \in BinEdges : x <= Get(age) /\ Get(age) < x + BinWidth
         IN  Some(CHOOSE l \in BinLabels : l[1] = e)
    ELSE NULL

----------------------------------------------------------------------------
(* The script from the loaded tables to the demographic chart              *)

MaxNotes == 2
MaxPatients == 1

SubjectIds == {1, 2}
Flu == <<"F", "l", "u">>
Date(y) == Some([parseable |-> TRUE, year |-> y])
BadDate == Some([parseable |-> FALSE, year |-> 0])

\* the notes rows of one patient: a pathology with a personal and a family
\* history, the same with other text, no history, and no pathology
NoteCases == {<<Some(Flu), Some(<<"A">>), Some(<<"F">>)>>,
              <<Some(Flu), Some(<<"B">>), Some(<<"G">>)>>,
              <<Some(Flu), NULL, NULL>>,
              <<NULL, Some(<<"A">>), Some(<<"F">>)>>}
NoteRows ==
    {[SUBJECT_ID |-> Some(id), MAIN_PATHOLOGY |-> c[1],
      MEDICAL_PERSONAL_HISTORY |-> c[2], MEDICAL_FAMILY_HISTORY |-> c[3]] :
        id \in SubjectIds, c \in NoteCases}

\* the patients rows of one patient: the ages 0, 100, 101 and -1, a birth
\* date that does not parse, no death date, and no gender (age 50)
PatientCases == {<<Some(<<"M">>), Date(2000), Date(2000)>>,
                 <<Some(<<"M">>), Date(1900), Date(2000)>>,
                 <<Some(<<"M">>), Date(1899), Date(2000)>>,
                 <<Some(<<"M">>), Date(2001), Date(2000)>>,
                 <<Some(<<"M">>), BadDate, Date(2000)>>,
                 <<Some(<<"M">>), Date(1950), NULL>>,
                 <<NULL, Date(1950), Date(2000)>>}
PatientRows ==
    {[SUBJECT_ID |-> Some(id), GENDER |-> c[1], DOB |-> c[2], DOD_HOSP |-> c[3]] :
        id \in SubjectIds, c \in PatientCases}

\* what the user may type at line 61
TypedWords == {<<>>, <<"f", "l", "u">>}

Idle ==
    /\ family_histories = <<>> /\ row = 0 /\ all_relations = {}
    /\ selected_relations = {} /\ filtered_family = <<>>
    /\ relation = <<>> /\ category = None

\* line 25: the tables as loaded; the derived tables are not computed yet.
\* The notes table holds a row: apply(axis=1) of line 37 gives a frame, not
\* a column, on an empty table.
Init ==
    /\ pc = "link"
    /\ structured_notes \in SeqsBetween(NoteRows, 1, MaxNotes)
    /\ patients \in SeqsBetween(PatientRows, 0, MaxPatients)
    /\ merged_df = <<>> /\ search_word = <<>> /\ filtered_df = <<>>
    /\ aggregated_df = <<>> /\ age_group = <<>>
    /\ Idle

\* lines 30-43
Link ==
    /\ pc = "link"
    /\ merged_df' = Linker(structured_notes, patients)
    /\ pc' = "search"
    /\ UNCHANGED <<structured_notes, patients, search_word, filtered_df,
                   aggregated_df, age_group, familyVars, classifyVars>>

\* lines 56-63: an option of the select box or a typed word
ChooseSearchWord ==
    /\ pc = "search"
    /\ \E w \in TypedWords \cup all_pathologies(merged_df) : search_word' = w
    /\ pc' = "filter"
    /\ UNCHANGED <<structured_notes, patients, merged_df, filtered_df,
                   aggregated_df, age_group, familyVars, classifyVars>>

\* line 66
Filter ==
    /\ pc = "filter"
    /\ filtered_df' = filter_rows(merged_df, search_word)
    /\ pc' = "aggregate"
    /\ UNCHANGED <<structured_notes, patients, merged_df, search_word,
                   aggregated_df, age_group, familyVars, classifyVars>>

\* lines 69-72
Aggregate ==
    /\ pc = "aggregate"
    /\ aggregated_df' = aggregate(filtered_df)
    /\ pc' = "demographics"
    /\ UNCHANGED <<structured_notes, patients, merged_df, search_word,
                   filtered_df, age_group, familyVars, classifyVars>>

\* lines 148-149: the AGE_GROUP column, when the filtered set is not empty
Demographics ==
    /\ pc = "demographics"
    /\ age_group' = IF filtered_df # <<>>
                    THEN [i \in DOMAIN filtered_df |-> cut(filtered_df[i].AGE)]
                    ELSE <<>>
    /\ pc' = "done"
    /\ UNCHANGED <<structured_notes, patients, merged_df, search_word,
                   filtered_df, aggregated_df, familyVars, classifyVars>>

\* an interaction runs the script again on the cached tables
Rerun ==
    /\ pc = "done"
    /\ pc' = "link"
    /\ merged_df' = <<>> /\ search_word' = <<>> /\ filtered_df' = <<>>
    /\ aggregated_df' = <<>> /\ age_group' = <<>>
    /\ UNCHANGED <<structured_notes, patients, familyVars, classifyVars>>

Next == Link \/ ChooseSearchWord \/ Filter \/ Aggregate \/ Demographics \/ Rerun

Spec == Init /\ [][Next]_vars

----------------------------------------------------------------------------
(* The classifier on its own                                               *)

MaxWords == 2

Space == <<" ">>
RelationWords ==
    { <<"d", "a", "u", "g", "h", "t", "e", "r">>,
      <<"S", "O", "N">>,
      <<"S", "i", "s", "t", "e", "r">>,
      <<"b", "r", "o", "t", "h", "e", "r">>,
      <<"M", "o", "t", "h", "e", "r">>,
      <<"f", "a", "t", "h", "e", "r">>,
      <<"N", "C">>,
      <<"n", "o", "n", " ", "c", "o", "n", "t", "r", "i", "b", "u", "t", "o", "r", "y">>,
      <<"U", "n", "k", "n", "o", "w", "n">>,
      <<"u", "n", "c", "l", "e">>,
      <<"c", "o", "u", "s", "i", "n">> }

\* relation strings of up to MaxWords words
RelationInputs ==
    {join(Space, ws) : ws \in SeqsBetween(RelationWords, 0, MaxWords)}

InitClassify ==
    /\ pc = "classify"
    /\ relation \in RelationInputs
    /\ category = None
    /\ structured_notes = <<>> /\ patients = <<>> /\ merged_df = <<>>
    /\ search_word = <<>> /\ filtered_df = <<>> /\ aggregated_df = <<>>
    /\ age_group = <<>>
    /\ family_histories = <<>> /\ row = 0 /\ all_relations = {}
    /\ selected_relations = {} /\ filtered_family = <<>>

\* a call of standardize_relation, lines 79-98
Classify ==
    /\ pc = "classify"
    /\ category' = standardize_relation(relation)
    /\ pc' = "classified"
    /\ UNCHANGED <<relation, linkVars, familyVars>>

NextClassify == Classify

SpecClassify == InitClassify /\ [][NextClassify]_vars

----------------------------------------------------------------------------
(* Family History, lines 101-124                                           *)

\* Python values a payload can decode into
PyInt == [type |-> "int", chars |-> <<>>, keys |-> <<>>, items |-> <<>>]
PyStr(c) == [type |-> "str", chars |-> c, keys |-> <<>>, items |-> <<>>]
PyList(xs) == [type |-> "list", chars |-> <<>>, keys |-> <<>>, items |-> xs]
\* a dict: its keys in insertion order, and the value of each
PyDict(ks, vs) == [type |-> "dict", chars |-> <<>>, keys |-> ks, items |-> vs]

KeyRelation == <<"r", "e", "l", "a", "t", "i", "o", "n">>
KeyCondition == <<"c", "o", "n", "d", "i", "t", "i", "o", "n">>

\* the outcome of an evaluation: a value, or an exception raised
Return(v) == [raised |-> FALSE, value |-> v]
Raise == [raised |-> TRUE, value |-> <<>>]

\* A payload text is the text of a Python literal, the empty text, or text
\* that is no literal.  ast.literal_eval returns the value of the first and
\* raises on the others.
TextOf(v) == [kind |-> "literal", value |-> v]
EmptyText == [kind |-> "empty", value |-> PyInt]
InvalidText == [kind |-> "invalid", value |-> PyInt]

literal_eval(text) ==
    IF text.kind = "literal" THEN Return(text.value) ELSE Raise

\* for entry in v: a list gives its items, a str its characters, a dict its
\* keys; an int is not iterable
iterate(v) ==
    IF v.type = "list" THEN Return(v.items)
    ELSE IF v.type = "str" THEN Return([i \in DOMAIN v.chars |-> PyStr(<<v.chars[i]>>)])
    ELSE IF v.type = "dict" THEN Return([i \in DOMAIN v.keys |-> PyStr(v.keys[i])])
    ELSE Raise

HasKeyOf(entry, key) == \E i \in DOMAIN entry.keys : entry.keys[i] = key
ValueOf(entry, key) == entry.items[CHOOSE i \in DOMAIN entry.keys : entry.keys[i] = key]

\* entry[key]: KeyError on a dict without the key, TypeError on a str, a list
\* or an int indexed by a str
getitem(entry, key) ==
    IF entry.type = "dict" /\ HasKeyOf(entry, key) THEN Return(ValueOf(entry, key))
    ELSE Raise

\* entry.get(key, default): AttributeError on what is not a dict
get(entry, key, default) ==
    IF entry.type = "dict"
    THEN Return(IF HasKeyOf(entry, key) THEN ValueOf(entry, key) ELSE default)
    ELSE Raise

\* standardize_relation(v): relation.lower() raises on what is not a str
standardize(v) ==
    IF v.type = "str" THEN Return(standardize_relation(v.chars)) ELSE Raise

\* the comprehension of line 115 without its condition
RECURSIVE comprehension_unfiltered(_, _, _)
comprehension_unfiltered(entries, selected, out) ==
    IF entries = <<>> THEN Return(out)
    ELSE LET cond == getitem(Head(entries), KeyCondition)
         IN  IF cond.raised THEN Raise
             ELSE comprehension_unfiltered(Tail(entries), selected,
                                           Append(out, cond.value))

\* line 115: [entry["condition"] for entry in family_list
\*            if standardize_relation(entry["relation"]) in selected_relations],
\* out being the list built so far
RECURSIVE comprehension(_, _, _)
comprehension(entries, selected, out) ==
    IF entries = <<>> THEN Return(out)
    ELSE LET entry == Head(entries)
             rel == getitem(entry, KeyRelation)
             cat == IF rel.raised THEN Raise ELSE standardize(rel.value)
         IN  IF cat.raised THEN Raise
             ELSE IF cat.value \in selected
             THEN LET cond == getitem(entry, KeyCondition)
                  IN  IF cond.raised THEN Raise
                      ELSE comprehension(Tail(entries), selected,
                                         Append(out, cond.value))
             ELSE comprehension(Tail(entries), selected, out)

\* lines 114-115, the body of the try
filter_body(history, selected) ==
    LET family_list == literal_eval(history)
        entries == IF family_list.raised THEN Raise ELSE iterate(family_list.value)
    IN  IF entries.raised THEN Raise ELSE comprehension(entries.value, selected, <<>>)

\* lines 112-117 without the try
filter_family_history_no_except(history, selected) == filter_body(history, selected)

\* lines 112-117: the bare except returns [] for every exception
filter_family_history(history, selected) ==
    LET body == filter_body(history, selected)
    IN  IF body.raised THEN Return(<<>>) ELSE body

\* line 106: all_relations.update(generator).  The set takes each category as
\* the generator yields it, so what was added before an exception stays.
RECURSIVE update(_, _)
update(entries, relations) ==
    IF entries = <<>> THEN [raised |-> FALSE, value |-> relations]
    ELSE LET rel == get(Head(entries), KeyRelation, PyStr(<<>>))
             cat == IF rel.raised THEN Raise ELSE standardize(rel.value)
         IN  IF cat.raised THEN [raised |-> TRUE, value |-> relations]
             ELSE update(Tail(entries),
                         IF cat.value # None THEN relations \cup {cat.value}
                         ELSE relations)

\* lines 104-108, one turn of the loop: the bare except goes on to the next row
collect_relations(family_hist, relations) ==
    LET family_list == literal_eval(family_hist)
        entries == IF family_list.raised THEN Raise ELSE iterate(family_list.value)
    IN  IF entries.raised THEN [raised |-> FALSE, value |-> relations]
        ELSE [raised |-> FALSE, value |-> update(entries.value, relations).value]

----------------------------------------------------------------------------
(* The family-history branch on a column of aggregated payloads            *)

MaxHistories == 2

Entry(rel, cond) == PyDict(<<KeyRelation, KeyCondition>>, <<PyStr(rel), PyStr(cond)>>)
Hypertension == <<"h", "y", "p", "e", "r", "t", "e", "n", "s", "i", "o", "n">>

MotherEntry == Entry(<<"m", "o", "t", "h", "e", "r">>, Hypertension)
UnknownEntry == Entry(<<"u", "n", "k", "n", "o", "w", "n">>, <<"x">>)
NoRelation == PyDict(<<KeyCondition>>, <<PyStr(<<"y">>)>>)
NoCondition == PyDict(<<KeyRelation>>, <<PyStr(<<"M", "o", "t", "h", "e", "r">>)>>)

\* what a payload list is made of, in this order: the two entries of the
\* example of the specification, an excluded relation, an entry without a
\* relation, and an element that is no object
EntryPool ==
    << MotherEntry, UnknownEntry, Entry(<<"N", "C">>, <<"z">>), NoRelation, PyInt >>

PayloadLists ==
    {PyList(Pick(EntryPool, I, 1)) : I \in SUBSET DOMAIN EntryPool}
    \cup {PyList(<<MotherEntry, NoCondition>>)}

\* text that decodes into a list, into a scalar, a str or a dict, the empty
\* text (a patient without family history, line 71) and text that is no literal
Payloads ==
    {TextOf(l) : l \in PayloadLists}
    \cup {TextOf(PyInt), TextOf(PyStr(<<"a", "b">>)), TextOf(MotherEntry),
          EmptyText, InvalidText}

InitFamily ==
    /\ pc = "collect"
    /\ family_histories \in SeqsBetween(Payloads, 0, MaxHistories)
    /\ row = 1
    /\ all_relations = {} /\ selected_relations = {} /\ filtered_family = <<>>
    /\ structured_notes = <<>> /\ patients = <<>> /\ merged_df = <<>>
    /\ search_word = <<>> /\ filtered_df = <<>> /\ aggregated_df = <<>>
    /\ age_group = <<>>
    /\ relation = <<>> /\ category = None

\* lines 103-108: one turn of the loop over the column
CollectRow ==
    /\ pc = "collect"
    /\ row <= Len(family_histories)
    /\ LET turn == collect_relations(family_histories[row], all_relations)
       IN  /\ all_relations' = turn.value
           /\ pc' = IF turn.raised THEN "crashed" ELSE "collect"
    /\ row' = row + 1
    /\ UNCHANGED <<family_histories, selected_relations, filtered_family,
                   linkVars, classifyVars>>

\* line 110: the multiselect over sorted(all_relations)
SelectRelations ==
    /\ pc = "collect"
    /\ row > Len(family_histories)
    /\ \E chosen \in SUBSET all_relations : selected_relations' = chosen
    /\ pc' = "display"
    /\ UNCHANGED <<family_histories, row, all_relations, filtered_family,
                   linkVars, classifyVars>>

\* lines 119-124: the FILTERED_FAMILY_HISTORY column, when relations are selected
Display ==
    /\ pc = "display"
    /\ LET calls == [i \in DOMAIN family_histories |->
                        filter_family_history(family_histories[i], selected_relations)]
       IN  IF selected_relations = {}
           THEN filtered_family' = <<>> /\ pc' = "unfiltered"
           ELSE IF \E i \in DOMAIN calls : calls[i].raised
           THEN filtered_family' = <<>> /\ pc' = "crashed"
           ELSE /\ filtered_family' = [i \in DOMAIN calls |-> calls[i].value]
                /\ pc' = "filtered"
    /\ UNCHANGED <<family_histories, row, all_relations, selected_relations,
                   linkVars, classifyVars>>

\* an interaction runs the script again
RerunFamily ==
    /\ pc \in {"filtered", "unfiltered"}
    /\ pc' = "collect"
    /\ row' = 1
    /\ all_relations' = {} /\ selected_relations' = {} /\ filtered_family' = <<>>
    /\ UNCHANGED <<family_histories, linkVars, classifyVars>>

NextFamily == CollectRow \/ SelectRelations \/ Display \/ RerunFamily

SpecFamily == InitFamily /\ [][NextFamily]_vars

----------------------------------------------------------------------------
(* Properties of the linker, the filter, the aggregator and the buckets    *)
(* (specification Spec)                                                    *)

InRange(age) == age # NULL /\ age[1] >= 0 /\ age[1] <= 100

\* the age the patients table gives: both dates parse, death year minus birth year
AgeFromPatient(r) ==
    \E k \in DOMAIN patients :
        LET p == patients[k] IN
        /\ p.SUBJECT_ID = r.SUBJECT_ID
        /\ p.DOB # NULL /\ p.DOD_HOSP # NULL
        /\ p.DOB[1].parseable /\ p.DOD_HOSP[1].parseable
        /\ r.AGE = <<p.DOD_HOSP[1].year - p.DOB[1].year>>

\* C1: every record of the merged table has a non-null AGE in [0,100], the
\* year difference of a matching patient's two parsed dates, and no record
\* with a null or out-of-range AGE is in the merged, filtered or aggregated
\* table.
C1_PlausibleAge ==
    /\ \A i \in DOMAIN merged_df :
           InRange(merged_df[i].AGE) /\ AgeFromPatient(merged_df[i])
    /\ \A i \in DOMAIN filtered_df : InRange(filtered_df[i].AGE)
    /\ \A i \in DOMAIN aggregated_df : InRange(aggregated_df[i].AGE)

\* the script has run to its end, a patient is in the aggregated table, and
\* a notes row of another patient was dropped for its age
C1_Witness ==
    /\ pc = "done"
    /\ aggregated_df # <<>>
    /\ \E i \in DOMAIN structured_notes :
           \A k \in DOMAIN merged_df :
               merged_df[k].SUBJECT_ID # structured_notes[i].SUBJECT_ID

Linked == pc \in {"search", "filter", "aggregate", "demographics", "done"}

\* a patient identifier of the notes table with a patients row of plausible age
Survives(id) ==
    /\ \E i \in DOMAIN structured_notes : structured_notes[i].SUBJECT_ID = id
    /\ \E k \in DOMAIN patients :
           LET p == patients[k] IN
           /\ p.SUBJECT_ID = id
           /\ p.DOB # NULL /\ p.DOD_HOSP # NULL
           /\ p.DOB[1].parseable /\ p.DOD_HOSP[1].parseable
           /\ p.DOD_HOSP[1].year - p.DOB[1].year \in 0..100

FirstNote(id) ==
    CHOOSE i \in DOMAIN structured_notes :
        /\ structured_notes[i].SUBJECT_ID = id
        /\ \A j \in 1..(i - 1) : structured_notes[j].SUBJECT_ID # id

\* C2: after deduplication no two merged records share a patient identifier,
\* and for every identifier that survives the age filter the record kept
\* comes from the first notes row of that patient.
C2_FirstNoteKept ==
    Linked =>
        /\ \A i, j \in DOMAIN merged_df :
               i # j => merged_df[i].SUBJECT_ID # merged_df[j].SUBJECT_ID
        /\ \A id \in {Some(x) : x \in SubjectIds} :
               Survives(id) =>
                   \E k \in DOMAIN merged_df :
                       /\ merged_df[k].SUBJECT_ID = id
                       /\ merged_df[k].note = FirstNote(id)
                       /\ merged_df[k].MEDICAL_PERSONAL_HISTORY
                              = structured_notes[FirstNote(id)].MEDICAL_PERSONAL_HISTORY

\* a patient with two different notes rows, both of plausible age, is linked
C2_Witness ==
    /\ Linked
    /\ \E i, j \in DOMAIN structured_notes :
           /\ i < j
           /\ structured_notes[i].SUBJECT_ID = structured_notes[j].SUBJECT_ID
           /\ structured_notes[i] # structured_notes[j]
           /\ \E k \in DOMAIN merged_df : merged_df[k].note = i

Aggregated == pc \in {"demographics", "done"}

\* C3: every patient identifier of the filtered set appears exactly once in
\* the aggregated output, patients with a null pathology or gender included.
C3_OncePerPatient ==
    Aggregated =>
        \A i \in DOMAIN filtered_df :
            Cardinality({g \in DOMAIN aggregated_df :
                            aggregated_df[g].SUBJECT_ID = filtered_df[i].SUBJECT_ID}) = 1

UniquePatients ==
    \A k, l \in DOMAIN patients :
        k # l => patients[k].SUBJECT_ID # patients[l].SUBJECT_ID

\* the notes rows of the patient and pathology of an aggregated record
NotesOf(a) ==
    SelectSeq(structured_notes,
              LAMBDA n : n.SUBJECT_ID = a.SUBJECT_ID
                         /\ n.MAIN_PATHOLOGY = a.MAIN_PATHOLOGY)

\* C9: the aggregated record of a patient has as personal history and as
\* family history the ", "-joined non-null values of all the notes rows of
\* that patient and pathology, in the order of the notes table.
C9_AllNotesJoined ==
    (Aggregated /\ UniquePatients) =>
        \A g \in DOMAIN aggregated_df :
            LET a == aggregated_df[g]
                ns == NotesOf(a)
            IN  /\ a.MEDICAL_PERSONAL_HISTORY
                       = join_column([i \in DOMAIN ns |-> ns[i].MEDICAL_PERSONAL_HISTORY])
                /\ a.MEDICAL_FAMILY_HISTORY
                       = join_column([i \in DOMAIN ns |-> ns[i].MEDICAL_FAMILY_HISTORY])

\* C10: every record of a non-empty filtered set has an age bucket lo-hi
\* with lo <= AGE <= hi.
C10_EveryRecordBucketed ==
    (pc = "done" /\ filtered_df # <<>>) =>
        /\ Len(age_group) = Len(filtered_df)
        /\ \A i \in DOMAIN filtered_df :
               /\ age_group[i] # NULL
               /\ age_group[i][1][1] <= filtered_df[i].AGE[1]
               /\ filtered_df[i].AGE[1] <= age_group[i][1][2]

----------------------------------------------------------------------------
(* Properties of the classifier (specification SpecClassify)               *)

\* a keyword of the set occurs in the relation, whatever the letter case
Occurs(keywords, rel) ==
    \E k \in DOMAIN keywords : Contains(lower(keywords[k]), lower(rel))

\* C5: the category is the first, in the order Children, Sibling, Parent,
\* Excluded, of which a keyword occurs in the relation, and "Other relatives"
\* only when no keyword of the four sets occurs in it.
C5_PriorityOrder ==
    pc = "classified" =>
        category = IF Occurs(ChildrenKeywords, relation) THEN "Children"
                   ELSE IF Occurs(SiblingKeywords, relation) THEN "Sibling"
                   ELSE IF Occurs(ParentKeywords, relation) THEN "Parent"
                   ELSE IF Occurs(ExcludedKeywords, relation) THEN None
                   ELSE "Other relatives"

----------------------------------------------------------------------------
(* Properties of the family-history branch (specification SpecFamily)      *)

IsObject(e) == e.type = "dict"
IsEntry(e) ==
    /\ IsObject(e)
    /\ HasKeyOf(e, KeyRelation) /\ HasKeyOf(e, KeyCondition)
    /\ ValueOf(e, KeyRelation).type = "str"

IsList(text) == text.kind = "literal" /\ text.value.type = "list"
ListOfObjects(text) ==
    IsList(text) /\ \A k \in DOMAIN text.value.items : IsObject(text.value.items[k])
WellFormed(text) ==
    IsList(text) /\ \A k \in DOMAIN text.value.items : IsEntry(text.value.items[k])

CategoryOf(e) == standardize_relation(ValueOf(e, KeyRelation).chars)

\* the conditions of the entries among es of a selected category, in order
ConditionsOf(es, selected) ==
    LET kept == SelectSeq(es, LAMBDA e : CategoryOf(e) \in selected)
    IN  [k \in DOMAIN kept |-> ValueOf(kept[k], KeyCondition)]

\* C4: for a payload whose entries all carry a relation and a condition, the
\* result is exactly the conditions of the entries whose relation classifies
\* into a selected category, in payload order.
C4_SelectedConditions ==
    pc = "filtered" =>
        \A i \in DOMAIN family_histories :
            WellFormed(family_histories[i]) =>
                filtered_family[i]
                    = ConditionsOf(family_histories[i].value.items, selected_relations)

\* the example: (mother, hypertension), (unknown, x) with Parent selected
\* gives hypertension alone
C4_Witness ==
    /\ pc = "filtered"
    /\ selected_relations = {"Parent"}
    /\ \E i \in DOMAIN family_histories :
           /\ family_histories[i] = TextOf(PyList(<<MotherEntry, UnknownEntry>>))
           /\ filtered_family[i] = <<PyStr(Hypertension)>>

ExcludedRelations ==
    { <<"n", "o", "n", " ", "c", "o", "n", "t", "r", "i", "b", "u", "t", "o", "r", "y">>,
      <<"n", "c">>,
      <<"u", "n", "k", "n", "o", "w", "n">> }

IsExcluded(e) == lower(ValueOf(e, KeyRelation).chars) \in ExcludedRelations

\* C6: an entry whose relation is "non contributory", "nc" or "unknown" in
\* any letter case adds no category to all_relations, and its condition is
\* never in the filtered output.
C6_ExcludedNeverShown ==
    /\ (pc \in {"display", "filtered", "unfiltered"}
        /\ \A i \in DOMAIN family_histories :
               /\ WellFormed(family_histories[i])
               /\ \A k \in DOMAIN family_histories[i].value.items :
                      IsExcluded(family_histories[i].value.items[k]))
       => all_relations = {}
    /\ pc = "filtered" =>
           \A i \in DOMAIN family_histories :
               WellFormed(family_histories[i]) =>
                   \A k \in DOMAIN family_histories[i].value.items :
                       LET e == family_histories[i].value.items[k] IN
                       IsExcluded(e) =>
                           \A o \in DOMAIN filtered_family[i] :
                               filtered_family[i][o] # ValueOf(e, KeyCondition)

\* C7: an entry without the relation key or the condition key is skipped
\* alone; the conditions of the other entries of a selected category are
\* still returned.
C7_SkipMalformedEntry ==
    pc = "filtered" =>
        \A i \in DOMAIN family_histories :
            ListOfObjects(family_histories[i]) =>
                filtered_family[i]
                    = ConditionsOf(SelectSeq(family_histories[i].value.items, IsEntry),
                                   selected_relations)

\* the categories the entries of a well-formed payload classify into
CategoriesOf(text) ==
    {CategoryOf(text.value.items[k]) : k \in DOMAIN text.value.items} \ {None}

\* C8: a payload that does not decode into a list of objects gives an empty
\* list, no exception leaves filter_family_history or the collection loop,
\* and the rows of the other patients are collected and filtered as usual.
C8_FailSoft ==
    /\ pc # "crashed"
    /\ pc \in {"display", "filtered", "unfiltered"} =>
           \A i \in DOMAIN family_histories :
               WellFormed(family_histories[i]) =>
                   CategoriesOf(family_histories[i]) \subseteq all_relations
    /\ pc = "filtered" =>
           /\ Len(filtered_family) = Len(family_histories)
           /\ \A i \in DOMAIN family_histories :
                  ~ListOfObjects(family_histories[i]) => filtered_family[i] = <<>>

\* an undecodable payload is followed by a well-formed one whose conditions
\* are returned
C8_Witness ==
    /\ pc = "filtered"
    /\ Len(family_histories) = 2
    /\ ~ListOfObjects(family_histories[1])
    /\ WellFormed(family_histories[2])
    /\ filtered_family[1] = <<>>
    /\ filtered_family[2] # <<>>

====
